---- MODULE Spec2Model ----
(***************************************************************************)
(* BrandSaaS name generator (src/src/App.tsx): the generation pipeline     *)
(* generateName, the domain prober checkMultipleDomains with the estimator *)
(* checkDomainAvailability, and the caller-held application state with its *)
(* lifecycle handlers.                                                     *)
(*                                                                         *)
(* A JavaScript string is modelled as a sequence of one-character strings, *)
(* so that the regular expressions, split, trim and toLowerCase of the     *)
(* source are computed character by character.                             *)
(***************************************************************************)
EXTENDS Naturals, Sequences, FiniteSets, TLC

(***************************************************************************)
(* Characters and the string primitives the source uses                    *)
(***************************************************************************)
UpperLetters ==
  <<"A", "B", "C", "D", "E", "F", "G", "H", "I", "J", "K", "L", "M", "N", "O", "P", "Q", "R", "S", "T", "U", "V", "W", "X", "Y", "Z">>
LowerLetters ==
  <<"a", "b", "c", "d", "e", "f", "g", "h", "i", "j", "k", "l", "m", "n", "o", "p", "q", "r", "s", "t", "u", "v", "w", "x", "y", "z">>
Digits == {"0", "1", "2", "3", "4", "5", "6", "7", "8", "9"}

\* the characters \s and trim() treat as white space
WhiteSpace == {" ", "\t", "\n", "\r"}

Range(s) == {s[i] : i \in 1..Len(s)}

MinOf(S) == CHOOSE x \in S : \A y \in S : x <= y

MaxOf(S) == CHOOSE x \in S : \A y \in S : y <= x

UpperSet == Range(UpperLetters)

LowerSet == Range(LowerLetters)

\* the lower-case letter of each upper-case letter
LowerOf ==
  [c \in UpperSet |->
     LowerLetters[CHOOSE i \in 1..Len(UpperLetters) : UpperLetters[i] = c]]

IsUpper(c) == c \in UpperSet

IsLower(c) == c \in LowerSet

\* [a-zA-Z]
IsLetter(c) == IsUpper(c) \/ IsLower(c)

\* [0-9]
IsDigit(c) == c \in Digits

\* \s
IsSpace(c) == c \in WhiteSpace

\* String.prototype.toLowerCase on one character
LowerChar(c) == IF IsUpper(c) THEN LowerOf[c] ELSE c

\* String.prototype.toLowerCase
ToLower(s) == [i \in 1..Len(s) |-> LowerChar(s[i])]

\* String.prototype.trim
Trim(s) ==
  LET keep == {i \in 1..Len(s) : ~IsSpace(s[i])}
  IN  IF keep = {} THEN <<>> ELSE SubSeq(s, MinOf(keep), MaxOf(keep))

\* s.split(sep)[0]: the part of s before the first sep, all of s without one
BeforeFirst(s, sep) ==
  LET at == {i \in 1..Len(s) : s[i] = sep}
  IN  IF at = {} THEN s ELSE SubSeq(s, 1, MinOf(at) - 1)

\* s.split(sep).pop(): the part of s after the last sep, all of s without one
AfterLast(s, sep) ==
  LET at == {i \in 1..Len(s) : s[i] = sep}
  IN  IF at = {} THEN s ELSE SubSeq(s, MaxOf(at) + 1, Len(s))

\* s.split(sep): the segments of s between the occurrences of sep
RECURSIVE Split(_, _)
Split(s, sep) ==
  LET at == {i \in 1..Len(s) : s[i] = sep}
  IN  IF at = {} THEN <<s>>
      ELSE <<SubSeq(s, 1, MinOf(at) - 1)>> \o Split(SubSeq(s, MinOf(at) + 1, Len(s)), sep)

\* s.replace(/^[^a-zA-Z]*/, ''): drop the leading run of non-letters
StripLeadingNonLetters(s) ==
  LET at == {i \in 1..Len(s) : IsLetter(s[i])}
  IN  IF at = {} THEN <<>> ELSE SubSeq(s, MinOf(at), Len(s))

\* s.replace(/[^a-zA-Z0-9\s-]*$/, ''): drop the trailing run of characters
\* that are neither letters, digits, white space nor '-'
StripTrailingJunk(s) ==
  LET at == {i \in 1..Len(s) :
               IsLetter(s[i]) \/ IsDigit(s[i]) \/ IsSpace(s[i]) \/ s[i] = "-"}
  IN  IF at = {} THEN <<>> ELSE SubSeq(s, 1, MaxOf(at))

\* name.toLowerCase().replace(/[^a-z0-9]/g, '')
Normalize(name) ==
  SelectSeq(ToLower(name), LAMBDA c : IsLower(c) \/ IsDigit(c))

(***************************************************************************)
(* checkDomainAvailability: the heuristic estimator                        *)
(***************************************************************************)
definitelyTaken ==
  { <<"g", "o", "o", "g", "l", "e", ".", "c", "o", "m">>,
    <<"f", "a", "c", "e", "b", "o", "o", "k", ".", "c", "o", "m">>,
    <<"a", "m", "a", "z", "o", "n", ".", "c", "o", "m">>,
    <<"m", "i", "c", "r", "o", "s", "o", "f", "t", ".", "c", "o", "m">>,
    <<"a", "p", "p", "l", "e", ".", "c", "o", "m">>,
    <<"n", "e", "t", "f", "l", "i", "x", ".", "c", "o", "m">>,
    <<"t", "w", "i", "t", "t", "e", "r", ".", "c", "o", "m">>,
    <<"i", "n", "s", "t", "a", "g", "r", "a", "m", ".", "c", "o", "m">>,
    <<"l", "i", "n", "k", "e", "d", "i", "n", ".", "c", "o", "m">>,
    <<"y", "o", "u", "t", "u", "b", "e", ".", "c", "o", "m">>,
    <<"g", "i", "t", "h", "u", "b", ".", "c", "o", "m">>,
    <<"s", "t", "a", "c", "k", "o", "v", "e", "r", "f", "l", "o", "w", ".", "c", "o", "m">>,
    <<"r", "e", "d", "d", "i", "t", ".", "c", "o", "m">>,
    <<"w", "i", "k", "i", "p", "e", "d", "i", "a", ".", "o", "r", "g">>,
    <<"w", "o", "r", "d", "p", "r", "e", "s", "s", ".", "c", "o", "m">>,
    <<"s", "h", "o", "p", "i", "f", "y", ".", "c", "o", "m">>,
    <<"s", "t", "r", "i", "p", "e", ".", "c", "o", "m">>,
    <<"s", "l", "a", "c", "k", ".", "c", "o", "m">>,
    <<"z", "o", "o", "m", ".", "c", "o", "m">>,
    <<"d", "r", "o", "p", "b", "o", "x", ".", "c", "o", "m">>,
    <<"a", "i", "r", "b", "n", "b", ".", "c", "o", "m">>,
    <<"u", "b", "e", "r", ".", "c", "o", "m">>,
    <<"l", "y", "f", "t", ".", "c", "o", "m">>,
    <<"s", "p", "o", "t", "i", "f", "y", ".", "c", "o", "m">>,
    <<"d", "i", "s", "c", "o", "r", "d", ".", "c", "o", "m">>,
    <<"t", "w", "i", "t", "c", "h", ".", "c", "o", "m">>,
    <<"t", "i", "k", "t", "o", "k", ".", "c", "o", "m">>,
    <<"s", "n", "a", "p", "c", "h", "a", "t", ".", "c", "o", "m">>,
    <<"p", "i", "n", "t", "e", "r", "e", "s", "t", ".", "c", "o", "m">>,
    <<"w", "h", "a", "t", "s", "a", "p", "p", ".", "c", "o", "m">> }

commonWords ==
  { <<"t", "h", "e">>,
    <<"a", "n", "d">>,
    <<"f", "o", "r">>,
    <<"y", "o", "u">>,
    <<"m", "e">>,
    <<"m", "y">>,
    <<"w", "e">>,
    <<"u", "s">>,
    <<"i", "t">>,
    <<"i", "s">>,
    <<"i", "n">>,
    <<"o", "n">>,
    <<"a", "t">>,
    <<"t", "o">>,
    <<"o", "f">>,
    <<"a">>,
    <<"a", "n">>,
    <<"c", "o", "m">>,
    <<"n", "e", "t">>,
    <<"o", "r", "g">> }

\* the alternatives of the .com pattern /^(cash|flow|...|we)$/i
genericComWords ==
  { <<"c", "a", "s", "h">>,
    <<"f", "l", "o", "w">>,
    <<"h", "q">>,
    <<"p", "r", "o">>,
    <<"a", "p", "p">>,
    <<"w", "e", "b">>,
    <<"t", "e", "c", "h">>,
    <<"d", "a", "t", "a">>,
    <<"c", "l", "o", "u", "d">>,
    <<"t", "e", "a", "m">>,
    <<"w", "o", "r", "k">>,
    <<"h", "o", "m", "e">>,
    <<"s", "h", "o", "p">>,
    <<"b", "u", "y">>,
    <<"g", "e", "t">>,
    <<"g", "o">>,
    <<"m", "y">>,
    <<"m", "e">>,
    <<"u", "s">>,
    <<"w", "e">> }

\* the extensions assumed available
newerExtensions ==
  { <<"i", "o">>, <<"c", "o">>, <<"a", "p", "p">>, <<"d", "e", "v">>, <<"t", "e", "c", "h">>, <<"a", "i">>, <<"m", "e">> }

conservativeExtensions == { <<"n", "e", "t">>, <<"o", "r", "g">> }

\* an estimator that does not commit itself on the newer extensions
checkDomainAvailabilityUnsure(domain) ==
  LET domainName == ToLower(domain)
      domainWithoutExt == BeforeFirst(domainName, ".")
      extension == AfterLast(domainName, ".")
  IN  IF domainName \in definitelyTaken THEN "taken"
      ELSE IF Len(domainWithoutExt) <= 4 THEN "taken"
      ELSE IF domainWithoutExt \in commonWords THEN "taken"
      ELSE IF extension = <<"c", "o", "m">>
        THEN IF Len(domainWithoutExt) <= 6 \/ ToLower(domainWithoutExt) \in genericComWords
               THEN "taken"
               ELSE "available"
      ELSE IF extension \in newerExtensions THEN "unknown"
      ELSE IF extension \in conservativeExtensions
        THEN IF Len(domainWithoutExt) <= 5 THEN "taken" ELSE "available"
      ELSE "available"

\* an estimator without the list of well-known domains
checkDomainAvailabilityRulesOnly(domain) ==
  LET domainName == ToLower(domain)
      domainWithoutExt == BeforeFirst(domainName, ".")
      extension == AfterLast(domainName, ".")
  IN  IF Len(domainWithoutExt) <= 4 THEN "taken"
      ELSE IF domainWithoutExt \in commonWords THEN "taken"
      ELSE IF extension = <<"c", "o", "m">>
        THEN IF Len(domainWithoutExt) <= 6 \/ ToLower(domainWithoutExt) \in genericComWords
               THEN "taken"
               ELSE "available"
      ELSE IF extension \in newerExtensions THEN "available"
      ELSE IF extension \in conservativeExtensions
        THEN IF Len(domainWithoutExt) <= 5 THEN "taken" ELSE "available"
      ELSE "available"

\* an estimator that takes a .com name for taken up to five characters only
checkDomainAvailabilityShortCom(domain) ==
  LET domainName == ToLower(domain)
      domainWithoutExt == BeforeFirst(domainName, ".")
      extension == AfterLast(domainName, ".")
  IN  IF domainName \in definitelyTaken THEN "taken"
      ELSE IF Len(domainWithoutExt) <= 4 THEN "taken"
      ELSE IF domainWithoutExt \in commonWords THEN "taken"
      ELSE IF extension = <<"c", "o", "m">>
        THEN IF Len(domainWithoutExt) <= 5 \/ ToLower(domainWithoutExt) \in genericComWords
               THEN "taken"
               ELSE "available"
      ELSE IF extension \in newerExtensions THEN "available"
      ELSE IF extension \in conservativeExtensions
        THEN IF Len(domainWithoutExt) <= 5 THEN "taken" ELSE "available"
      ELSE "available"

checkDomainAvailability(domain) ==
  LET domainName == ToLower(domain)
      domainWithoutExt == BeforeFirst(domainName, ".")
      extension == AfterLast(domainName, ".")
  IN  IF domainName \in definitelyTaken THEN "taken"
      ELSE IF Len(domainWithoutExt) <= 4 THEN "taken"
      ELSE IF domainWithoutExt \in commonWords THEN "taken"
      ELSE IF extension = <<"c", "o", "m">>
        THEN IF Len(domainWithoutExt) <= 6 \/ ToLower(domainWithoutExt) \in genericComWords
               THEN "taken"
               ELSE "available"
      ELSE IF extension \in newerExtensions THEN "available"
      ELSE IF extension \in conservativeExtensions
        THEN IF Len(domainWithoutExt) <= 5 THEN "taken" ELSE "available"
      ELSE "available"

(***************************************************************************)
(* checkMultipleDomains: the prober                                        *)
(***************************************************************************)
extensions ==
  << <<".", "c", "o", "m">>,
    <<".", "n", "e", "t">>,
    <<".", "o", "r", "g">>,
    <<".", "i", "o">>,
    <<".", "c", "o">>,
    <<".", "a", "p", "p">>,
    <<".", "d", "e", "v">>,
    <<".", "t", "e", "c", "h">>,
    <<".", "a", "i">>,
    <<".", "m", "e">> >>

ExtensionSet == Range(extensions)

\* a loop body that walks the extensions from the last to the first
ProbeOneBackwards(results, cleanName, ext) ==
  LET k == CHOOSE i \in 1..Len(extensions) : extensions[i] = ext
      back == extensions[Len(extensions) + 1 - k]
  IN  [e \in (DOMAIN results) \cup {back} |->
         IF e = back THEN checkDomainAvailability(cleanName \o back) ELSE results[e]]

\* a prober that probes nothing for a name without letters or digits
ProbeOneSkippingEmpty(results, cleanName, ext) ==
  IF cleanName = <<>> THEN results
  ELSE [e \in (DOMAIN results) \cup {ext} |->
          IF e = ext THEN checkDomainAvailability(cleanName \o ext) ELSE results[e]]

\* one pass of the loop body: results[ext] = await checkDomainAvailability(domain).
\* The estimator has no path that throws, so the catch branch never runs.
ProbeOne(results, cleanName, ext) ==
  LET domain == cleanName \o ext
      status == checkDomainAvailability(domain)
  IN  [e \in (DOMAIN results) \cup {ext} |-> IF e = ext THEN status ELSE results[e]]

\* a loop body whose catch branch records nothing
ProbeOneCaughtSilently(results, cleanName, ext, throws) ==
  IF throws THEN results ELSE ProbeOne(results, cleanName, ext)

\* the loop body with its catch branch: when the awaited estimator rejects,
\* results[ext] = 'unknown' and the loop goes on
ProbeOneCaught(results, cleanName, ext, throws) ==
  IF throws
    THEN [e \in (DOMAIN results) \cup {ext} |-> IF e = ext THEN "unknown" ELSE results[e]]
    ELSE ProbeOne(results, cleanName, ext)

RECURSIVE ProbeFrom(_, _, _)
ProbeFrom(results, cleanName, k) ==
  IF k > Len(extensions) THEN results
  ELSE ProbeFrom(ProbeOne(results, cleanName, extensions[k]), cleanName, k + 1)

\* the whole of checkMultipleDomains(name), all its pacing delays elapsed
checkMultipleDomains(name) == ProbeFrom(<<>>, Normalize(name), 1)

(***************************************************************************)
(* The Name Sanitizer inside generateName                                  *)
(***************************************************************************)
unwantedWords ==
  { <<"h", "e", "r", "e">>,
    <<"s", "u", "g", "g", "e", "s", "t">>,
    <<"e", "x", "a", "m", "p", "l", "e">>,
    <<"n", "a", "m", "e">>,
    <<"n", "a", "m", "e", "s">>,
    <<"b", "u", "s", "i", "n", "e", "s", "s">>,
    <<"c", "o", "m", "p", "a", "n", "y">>,
    <<"s", "a", "a", "s">>,
    <<"s", "t", "a", "r", "t", "u", "p">> }

\* the clean-up chain applied to one line of the response
CleanName(nameText) ==
  Trim(BeforeFirst(BeforeFirst(Trim(StripTrailingJunk(StripLeadingNonLetters(nameText))),
                               "\n"), "."))


MinLength == 2

MaxLength == 30

\* the filter of the primary round: length bounds and the denylist
AcceptsPrimary(cleanName) ==
  ~(\/ Len(cleanName) > MaxLength
    \/ Len(cleanName) < MinLength
    \/ \E word \in unwantedWords : ToLower(cleanName) = word)

\* the filter of the fallback round: the length bounds alone
AcceptsFallback(cleanName) ==
  ~(Len(cleanName) > MaxLength \/ Len(cleanName) < MinLength)

\* a filter whose bounds are exclusive
AcceptsInside(round, cleanName) ==
  /\ Len(cleanName) < MaxLength
  /\ Len(cleanName) > MinLength
  /\ round = "primary" => ~(\E word \in unwantedWords : ToLower(cleanName) = word)

Accepts(round, cleanName) ==
  IF round = "primary" THEN AcceptsPrimary(cleanName) ELSE AcceptsFallback(cleanName)

MaxNames == 5

Take(s, n) == SubSeq(s, 1, IF Len(s) < n THEN Len(s) ELSE n)

\* every non-blank line, however many
NameLinesUncut(response) ==
  SelectSeq(Split(response, "\n"), LAMBDA line : Len(Trim(line)) > 0)

\* the slice taken before the blank lines are filtered out
NameLinesSliceFirst(response) ==
  SelectSeq(Take(Split(response, "\n"), MaxNames), LAMBDA line : Len(Trim(line)) > 0)

\* response.split('\n').filter(line => line.trim().length > 0).slice(0, 5)
NameLines(response) ==
  Take(SelectSeq(Split(response, "\n"), LAMBDA line : Len(Trim(line)) > 0), MaxNames)

(***************************************************************************)
(* generateNameWithCohere: the service call                                *)
(*                                                                         *)
(* A reply of the service is [kind, status, text]:                         *)
(*   "networkError"   fetch rejects                                        *)
(*   "notJson"        a body response.json() cannot parse                  *)
(*   "noGenerations"  a JSON object without generations[0].text            *)
(*   "generations"    a JSON object whose generations[0].text is text      *)
(***************************************************************************)
\* a service call that answers its own failures with the empty string
generateNameWithCohereSwallowing(reply) ==
  IF reply.kind = "generations"
    THEN [threw |-> FALSE, text |-> Trim(reply.text)]
    ELSE [threw |-> FALSE, text |-> <<>>]

generateNameWithCohere(reply) ==
  IF reply.kind \in {"networkError", "notJson"}
    THEN [threw |-> TRUE, text |-> <<>>]
  ELSE IF reply.kind = "noGenerations"
    THEN [threw |-> FALSE, text |-> <<>>]
  ELSE [threw |-> FALSE, text |-> Trim(reply.text)]


(***************************************************************************)
(* Inputs: the replies of the service                                      *)
(***************************************************************************)
\* the end-to-end scenario of the specification
TextExample ==
  <<"C", "l", "o", "u", "d", "F", "l", "o", "w", "\n", "D", "a", "t", "a", "S", "y", "n", "c", "\n", "T", "e", "a", "m", "H", "u", "b", "\n", "h", "e", "r", "e", "\n", "x">>

\* six non-blank lines, two of the first five rejected, a valid sixth
TextSixth ==
  <<"1", ".", " ", "A", "l", "p", "h", "a", "\n", "\n", "n", "a", "m", "e", "\n", "-", " ", "B", "r", "a", "v", "o", "!", "\n", " ", " ", "\n", "x", "\n", "D", "e", "l", "t", "a", ".", "i", "o", "\n", "E", "c", "h", "o">>

\* two names and a denylisted word in another letter case
TextTwo ==
  <<"N", "i", "m", "b", "u", "s", "\n", "S", "a", "a", "S", "\n", "O", "r", "b", "i", "t">>

\* a denylisted word and one name
TextDeny ==
  <<"n", "a", "m", "e", "s", "\n", "Z", "e", "n", "i", "t", "h">>

\* six valid names
TextFull ==
  <<"A", "a", "\n", "B", "b", "\n", "C", "c", "\n", "D", "d", "\n", "E", "e", "\n", "F", "f">>

\* white space only
TextBlank ==
  <<" ", "\n", " ">>

Texts == {TextExample, TextSixth, TextTwo, TextDeny, TextFull, TextBlank}

ServiceReplies ==
  {[kind |-> "networkError", status |-> 0, text |-> <<>>],
   [kind |-> "notJson", status |-> 500, text |-> <<>>],
   [kind |-> "noGenerations", status |-> 401, text |-> <<>>],
   [kind |-> "noGenerations", status |-> 200, text |-> <<>>]}
  \cup {[kind |-> "generations", status |-> 200, text |-> t] : t \in Texts}

(***************************************************************************)
(* Inputs: the application state found in storage at start-up              *)
(***************************************************************************)
MaxHistory == 20

StoredName == <<"O", "l", "d", "N", "a", "m", "e">>

\* a Date value, and the ISO-8601 string JSON.stringify writes for it
DateAt(t) == [type |-> "Date", time |-> t]

StringAt(t) == [type |-> "string", time |-> t]

\* a candidate as generateName builds it; fallback ids carry the suffix
NewCandidate(n, suffix, cleanName) ==
  [id |-> <<n, suffix>>,
   name |-> cleanName,
   category |-> "Technology",
   timestamp |-> DateAt(n),
   isFavorite |-> FALSE,
   rating |-> 0,
   ratingComment |-> "",
   domains |-> checkMultipleDomains(cleanName)]

\* candidates minted n, n-1, ..., m: most recent first
RECURSIVE StoredCandidates(_, _)
StoredCandidates(n, m) ==
  IF n < m THEN <<>>
  ELSE <<NewCandidate(n, "", StoredName)>> \o StoredCandidates(n - 1, m)

StoredEmpty ==
  [generatedNames |-> <<>>, archivedNames |-> <<>>, minted |-> 0]

\* two active candidates and an archived one
StoredSmall ==
  [generatedNames |-> StoredCandidates(3, 2),
   archivedNames |-> StoredCandidates(1, 1),
   minted |-> 3]

\* a full history, with one candidate archived before the last generation
StoredFull ==
  [generatedNames |-> StoredCandidates(MaxHistory + 1, 2),
   archivedNames |-> StoredCandidates(1, 1),
   minted |-> MaxHistory + 1]

\* a history two short of full, and one archived candidate
StoredNearFull ==
  [generatedNames |-> StoredCandidates(MaxHistory - 1, 2),
   archivedNames |-> StoredCandidates(1, 1),
   minted |-> MaxHistory - 1]

(***************************************************************************)
(* State                                                                   *)
(***************************************************************************)
VARIABLES
  generatedNames,   \* appState.generatedNames: the active history
  archivedNames,    \* appState.archivedNames
  favorites,        \* appState.favorites
  darkMode,         \* appState.darkMode
  isGenerating,     \* React state isGenerating
  checkingDomains,  \* React state checkingDomains
  pc,               \* where the generateName run in flight is suspended
  names,            \* generateName: the lines of the round being sanitized
  cursor,           \* generateName: the index in names of the line being probed
  batch,            \* generateName: its local array generatedNames
  calls,            \* service calls issued by the current or last run
  replies,          \* the replies the current or last run received
  toasts,           \* notifications emitted by the current or last run
  outcome,          \* "none", "running", "success" or "failed": the last run
  nextId,           \* the next value Date.now() + Math.random() yields
  runs,             \* generateName runs started
  lifeOps,          \* archive and restore operations performed
  probeName,        \* checkMultipleDomains: its argument
  probeCursor,      \* checkMultipleDomains: the index of the next extension
  results,          \* checkMultipleDomains: its local map results
  recheck,          \* recheckArchivedDomains in flight: the archived list it read
  storage,          \* localStorage: the content under each of the two keys
  loadPc,           \* where the start-up of the application stands
  saved,            \* the application state last written to storage
  fnArg,            \* the argument of the pure function under study
  fnRet,            \* its last result
  fnCalls,          \* how many times it has been applied
  timers,           \* pending timers of generateRandomEverything
  pipelines         \* the generateName invocations in flight: where each stands

appVars == <<generatedNames, archivedNames, favorites, darkMode>>

genVars == <<isGenerating, checkingDomains, pc, names, cursor, batch, calls,
             replies, toasts, outcome, nextId, runs>>

probeVars == <<probeName, probeCursor, results>>

loadVars == <<storage, loadPc, saved>>

fnVars == <<fnArg, fnRet, fnCalls>>

trigVars == <<timers, pipelines>>

\* what neither the pipeline, the prober nor archive and restore touch
restVars == <<recheck, loadVars, fnVars, trigVars>>

vars == <<appVars, genVars, lifeOps, probeVars, restVars>>

MaxRuns == 1

MaxLifeOps == 1


(***************************************************************************)
(* generateName                                                            *)
(***************************************************************************)
MinNames == 3

\* the threshold off by one: a fallback with exactly three candidates too
NeedsFallbackAtThree(b) == Len(b) <= MinNames

\* if (generatedNames.length < 3)
NeedsFallback(b) == Len(b) < MinNames

\* a fallback that tries again while the batch is short
MayRetryAlways(round) == TRUE

\* the fallback block sits in the primary flow and holds no retry of its own
MayRetry(round) == round = "primary"

\* a merge that writes the batch over the history
HistoryMergeBatchOnly(b, prev) == Take(b, MaxHistory)

\* a merge that keeps the last twenty entries instead of the first
HistoryMergeKeepingLast(b, prev) ==
  LET all == b \o prev
  IN  IF Len(all) <= MaxHistory THEN all
      ELSE SubSeq(all, Len(all) - MaxHistory + 1, Len(all))

\* [...generatedNames, ...prev.generatedNames].slice(0, 20)
HistoryMerge(b, prev) == Take(b \o prev, MaxHistory)

\* a catch block that keeps the candidates assembled before the failure
CatchHistoryKeepingBatch(b, prev) == Take(b \o prev, MaxHistory)

\* the catch block calls no setAppState: the history stays the previous one
CatchHistory(b, prev) == prev

\* the success notification placed after the try statement
CatchToastsThenSuccess == <<"error", "success">>

\* the catch block: toast.error once
CatchToasts == <<"error">>

\* the next line at or after from that the round's filter accepts, 0 if none:
\* the loop runs through the rejected lines (continue) without suspending
NextAccepted(round, lines, from) ==
  LET ok == {j \in from..Len(lines) : Accepts(round, CleanName(lines[j]))}
  IN  IF ok = {} THEN 0 ELSE MinOf(ok)

\* the id suffix of a round's candidates
Suffix(round) == IF round = "primary" THEN "" ELSE "fallback"

RoundOf(p) == IF p \in {"primaryCall", "primaryProbe"} THEN "primary" ELSE "fallback"

\* The run goes on from line `from` of the round's lines with batch b, up to
\* its next await or its end: the probe of the next accepted line, the
\* fallback call, or the merge.
Resume(round, lines, from, b) ==
  LET j == NextAccepted(round, lines, from)
  IN  /\ checkingDomains' = IF round = "primary" THEN j # 0 ELSE checkingDomains
      /\ IF j # 0
           THEN /\ pc' = IF round = "primary" THEN "primaryProbe" ELSE "fallbackProbe"
                /\ cursor' = j
                /\ UNCHANGED <<calls, toasts, outcome, isGenerating, generatedNames>>
         ELSE IF MayRetry(round) /\ NeedsFallback(b)
           THEN /\ pc' = "fallbackCall"
                /\ cursor' = 0
                /\ calls' = calls + 1
                /\ UNCHANGED <<toasts, outcome, isGenerating, generatedNames>>
         ELSE /\ pc' = "idle"
              /\ cursor' = 0
              /\ generatedNames' = HistoryMerge(b, generatedNames)
              /\ toasts' = Append(toasts, "success")
              /\ outcome' = "success"
              /\ isGenerating' = FALSE
              /\ UNCHANGED calls

\* the catch block and the statement after it
Fail(b) ==
  /\ pc' = "idle"
  /\ generatedNames' = CatchHistory(b, generatedNames)
  /\ toasts' = toasts \o CatchToasts
  /\ outcome' = "failed"
  /\ isGenerating' = FALSE
  /\ UNCHANGED <<checkingDomains, cursor, calls>>

\* a click on Generate: the button is disabled while isGenerating
ClickGenerate ==
  /\ ~isGenerating
  /\ pc = "idle"
  /\ runs < MaxRuns
  /\ runs' = runs + 1
  /\ isGenerating' = TRUE
  /\ pc' = "primaryCall"
  /\ calls' = 1
  /\ replies' = <<>>
  /\ toasts' = <<>>
  /\ outcome' = "running"
  /\ names' = <<>>
  /\ cursor' = 0
  /\ batch' = <<>>
  /\ UNCHANGED <<appVars, checkingDomains, nextId, lifeOps, probeVars, restVars>>

\* the primary call settles: lines 287 to 300, or the catch block
PrimaryReplied(reply) ==
  /\ pc = "primaryCall"
  /\ replies' = Append(replies, reply)
  /\ LET r == generateNameWithCohere(reply)
     IN  IF r.threw
           THEN Fail(batch) /\ UNCHANGED names
           ELSE /\ names' = NameLines(r.text)
                /\ Resume("primary", names', 1, batch)
  /\ UNCHANGED <<archivedNames, favorites, darkMode, batch, nextId, runs, lifeOps, restVars>>

\* the same, the probes of a candidate taken as one step
PrimaryReply(reply) == PrimaryReplied(reply) /\ UNCHANGED probeVars

\* the fallback call settles: lines 349 to 355, or the catch block
FallbackReplied(reply) ==
  /\ pc = "fallbackCall"
  /\ replies' = Append(replies, reply)
  /\ LET r == generateNameWithCohere(reply)
     IN  IF r.threw
           THEN Fail(batch) /\ UNCHANGED names
           ELSE /\ names' = NameLines(r.text)
                /\ Resume("fallback", names', 1, batch)
  /\ UNCHANGED <<archivedNames, favorites, darkMode, batch, nextId, runs, lifeOps, restVars>>

FallbackReply(reply) == FallbackReplied(reply) /\ UNCHANGED probeVars

\* checkMultipleDomains returns for the line at cursor: the candidate is
\* built and pushed, and the loop goes on
ProbeReturns ==
  /\ pc \in {"primaryProbe", "fallbackProbe"}
  /\ batch' = Append(batch, NewCandidate(nextId, Suffix(RoundOf(pc)), CleanName(names[cursor])))
  /\ nextId' = nextId + 1
  /\ Resume(RoundOf(pc), names, cursor + 1, batch')
  /\ UNCHANGED <<archivedNames, favorites, darkMode, names, replies, runs, lifeOps, restVars>>

ProbeDone == ProbeReturns /\ UNCHANGED probeVars

(***************************************************************************)
(* Lifecycle handlers                                                      *)
(***************************************************************************)
Ids(s) == {s[i].id : i \in 1..Len(s)}

\* prev.generatedNames.find(n => n.id === nameId): the first match
Find(s, nameId) == s[MinOf({i \in 1..Len(s) : s[i].id = nameId})]

Without(s, nameId) == SelectSeq(s, LAMBDA n : n.id # nameId)

\* archiveName(nameId), clicked on a candidate of the rendered active list
archiveName(nameId) ==
  /\ nameId \in Ids(generatedNames)
  /\ generatedNames' = Without(generatedNames, nameId)
  /\ archivedNames' = Append(archivedNames, Find(generatedNames, nameId))
  /\ UNCHANGED <<favorites, darkMode>>

\* restoreName(nameId), clicked on a candidate of the rendered archived list
restoreName(nameId) ==
  /\ nameId \in Ids(archivedNames)
  /\ archivedNames' = Without(archivedNames, nameId)
  /\ generatedNames' = Append(generatedNames, Find(archivedNames, nameId))
  /\ UNCHANGED <<favorites, darkMode>>

\* one more of at most max lifecycle operations, outside any run of the
\* pipeline, the prober, the start-up and the functions under study
LifeStep(max) ==
  /\ lifeOps < max
  /\ lifeOps' = lifeOps + 1
  /\ UNCHANGED <<genVars, probeVars, trigVars, loadVars, fnVars>>

\* toggleFavorite(nameId): the flag is flipped and favorites recomputed
toggleFavorite(nameId) ==
  /\ nameId \in Ids(generatedNames)
  /\ LET updatedNames ==
           [i \in 1..Len(generatedNames) |->
              IF generatedNames[i].id = nameId
                THEN [generatedNames[i] EXCEPT !.isFavorite = ~@]
                ELSE generatedNames[i]]
         favored == SelectSeq(updatedNames, LAMBDA n : n.isFavorite)
     IN  /\ generatedNames' = updatedNames
         /\ favorites' = [i \in 1..Len(favored) |-> favored[i].id]
  /\ UNCHANGED <<archivedNames, darkMode>>

\* rateName(nameId, rating, comment): both collections are mapped
rateName(nameId, rating, comment) ==
  /\ nameId \in Ids(generatedNames) \cup Ids(archivedNames)
  /\ LET rated(list) ==
           [i \in 1..Len(list) |->
              IF list[i].id = nameId
                THEN [list[i] EXCEPT !.rating = rating, !.ratingComment = comment]
                ELSE list[i]]
     IN  /\ generatedNames' = rated(generatedNames)
         /\ archivedNames' = rated(archivedNames)
  /\ UNCHANGED <<favorites, darkMode>>

clearHistory ==
  /\ generatedNames' = <<>>
  /\ favorites' = <<>>
  /\ archivedNames' = <<>>
  /\ UNCHANGED darkMode

clearArchived ==
  /\ archivedNames' = <<>>
  /\ UNCHANGED <<generatedNames, favorites, darkMode>>

\* clearSearches: the two collections are emptied, favorites is not named
clearSearches ==
  /\ generatedNames' = <<>>
  /\ archivedNames' = <<>>
  /\ UNCHANGED <<favorites, darkMode>>

\* recheckArchivedDomains up to its first await: the archived list of the
\* render it was clicked in is what its loop runs over
recheckStart ==
  /\ ~recheck.active
  /\ archivedNames # <<>>
  /\ recheck' = [active |-> TRUE, names |-> archivedNames]
  /\ UNCHANGED appVars

\* recheckArchivedDomains after its last await: the rechecked copies of the
\* list it read become appState.archivedNames
recheckFinish ==
  /\ recheck.active
  /\ archivedNames' =
       [i \in 1..Len(recheck.names) |->
          [recheck.names[i] EXCEPT !.domains = checkMultipleDomains(recheck.names[i].name)]]
  /\ recheck' = [active |-> FALSE, names |-> <<>>]
  /\ UNCHANGED <<generatedNames, favorites, darkMode>>

\* the candidates the modelled clicks pick: the first and the last of a list
Picks(s) == IF s = <<>> THEN {} ELSE {s[1].id, s[Len(s)].id}

(***************************************************************************)
(* Specification of the application                                        *)
(***************************************************************************)
\* no run, no probe, no recheck in flight
InitIdle(minted) ==
  /\ nextId = minted + 1
  /\ isGenerating = FALSE
  /\ checkingDomains = FALSE
  /\ pc = "idle"
  /\ names = <<>>
  /\ cursor = 0
  /\ batch = <<>>
  /\ calls = 0
  /\ replies = <<>>
  /\ toasts = <<>>
  /\ outcome = "none"
  /\ runs = 0
  /\ lifeOps = 0
  /\ probeName = <<>>
  /\ probeCursor = 0
  /\ results = <<>>
  /\ recheck = [active |-> FALSE, names |-> <<>>]
  /\ timers = 0
  /\ pipelines = <<>>

\* no function under study has been applied
InitFn ==
  /\ fnArg = <<>>
  /\ fnRet = <<>>
  /\ fnCalls = 0

\* the application mounted on the stored state st, nothing in localStorage
InitMounted(st) ==
  /\ generatedNames = st.generatedNames
  /\ archivedNames = st.archivedNames
  /\ favorites = <<>>
  /\ darkMode = FALSE
  /\ InitIdle(st.minted)
  /\ storage = [main |-> [kind |-> "absent"], legacy |-> [kind |-> "absent"]]
  /\ loadPc = "loaded"
  /\ saved = [valid |-> FALSE]

InitWith(st) == InitMounted(st) /\ InitFn

Init == \E st \in {StoredEmpty, StoredSmall} : InitWith(st)

Next ==
  \/ ClickGenerate
  \/ \E reply \in ServiceReplies : PrimaryReply(reply)
  \/ \E reply \in ServiceReplies : FallbackReply(reply)
  \/ ProbeDone
  \/ \E nameId \in Picks(generatedNames) :
       LifeStep(MaxLifeOps) /\ archiveName(nameId) /\ UNCHANGED recheck
  \/ \E nameId \in Picks(archivedNames) :
       LifeStep(MaxLifeOps) /\ restoreName(nameId) /\ UNCHANGED recheck

Spec == Init /\ [][Next]_vars

\* the application started on a full stored history
InitFull == InitWith(StoredFull)

SpecFull == InitFull /\ [][Next]_vars

(***************************************************************************)
(* Specification of the lifecycle handlers alone, on a small stored state  *)
(***************************************************************************)
MaxLifeSteps == 3

\* the rating the modelled clicks give
RatingGiven == 4

NextLife ==
  \/ \E nameId \in Picks(generatedNames) :
       LifeStep(MaxLifeSteps) /\ archiveName(nameId) /\ UNCHANGED recheck
  \/ \E nameId \in Picks(archivedNames) :
       LifeStep(MaxLifeSteps) /\ restoreName(nameId) /\ UNCHANGED recheck
  \/ \E nameId \in Picks(generatedNames) :
       LifeStep(MaxLifeSteps) /\ toggleFavorite(nameId) /\ UNCHANGED recheck
  \/ \E nameId \in Picks(generatedNames) \cup Picks(archivedNames) :
       LifeStep(MaxLifeSteps) /\ rateName(nameId, RatingGiven, "") /\ UNCHANGED recheck
  \/ LifeStep(MaxLifeSteps) /\ clearHistory /\ UNCHANGED recheck
  \/ LifeStep(MaxLifeSteps) /\ clearArchived /\ UNCHANGED recheck
  \/ LifeStep(MaxLifeSteps) /\ clearSearches /\ UNCHANGED recheck
  \/ LifeStep(MaxLifeSteps) /\ recheckStart
  \/ LifeStep(MaxLifeSteps) /\ recheckFinish

SpecLife == InitWith(StoredSmall) /\ [][NextLife]_vars

\* the application started on a stored history of eighteen
InitNearFull == InitWith(StoredNearFull)

SpecMerge == InitNearFull /\ [][Next]_vars


(***************************************************************************)
(* Specification of the prober alone: checkMultipleDomains on any name,    *)
(* as generateName and recheckArchivedDomains call it, one step for each   *)
(* await of its loop                                                       *)
(***************************************************************************)
ProbeNames ==
  { <<>>,
    <<"!", "!">>,
    <<"x">>,
    <<"G", "o">>,
    <<"G", "o", "o", "g", "l", "e">>,
    <<"C", "l", "o", "u", "d", "F", "l", "o", "w">>,
    <<"T", "e", "a", "m", " ", "H", "u", "b", "-", "2">>,
    <<"W", "i", "k", "i", "p", "e", "d", "i", "a">>,
    <<"Z", "e", "n", "i", "t", "h">>,
    <<"O", "l", "d", "N", "a", "m", "e">>,
    <<"d", "a", "t", "a", "9">>,
    <<"S", "t", "r", "i", "p", "e", ".">> }

ProbeReturned == probeCursor = Len(extensions) + 1

\* checkMultipleDomains(name) is called
ProbeCall(name) ==
  /\ probeCursor = 0
  /\ probeName' = name
  /\ results' = <<>>
  /\ probeCursor' = 1
  /\ UNCHANGED <<appVars, genVars, lifeOps, restVars>>

\* one pass of the loop: the estimator answers and the pacing delay elapses
ProbeNext ==
  /\ probeCursor \in 1..Len(extensions)
  /\ results' = ProbeOne(results, Normalize(probeName), extensions[probeCursor])
  /\ probeCursor' = probeCursor + 1
  /\ UNCHANGED <<appVars, genVars, lifeOps, probeName, restVars>>

NextProbe ==
  \/ \E name \in ProbeNames : ProbeCall(name)
  \/ ProbeNext

SpecProbe == InitWith(StoredEmpty) /\ [][NextProbe]_vars


(***************************************************************************)
(* migrateOldData                                                          *)
(***************************************************************************)
\* a JavaScript object is a function on its keys; obj with key f set to v
WithField(obj, f, v) ==
  [k \in (DOMAIN obj) \cup {f} |-> IF k = f THEN v ELSE obj[k]]

\* name.domainStatus || 'unknown'
LegacyStatus(name) ==
  IF "domainStatus" \in DOMAIN name /\ name.domainStatus # ""
    THEN name.domainStatus
    ELSE "unknown"

\* the object literal { '.com': status }
ComOnly(status) == [e \in {extensions[1]} |-> status]

\* a migration that rebuilds the domains map of every record
migrateOneRebuilding(name) ==
  WithField(
    WithField(
      WithField(name, "rating",
                IF "rating" \in DOMAIN name /\ name.rating # 0 THEN name.rating ELSE 0),
      "ratingComment",
      IF "ratingComment" \in DOMAIN name /\ name.ratingComment # ""
        THEN name.ratingComment ELSE ""),
    "domains", ComOnly(LegacyStatus(name)))

\* the function migrateOldData maps over the records
migrateOne(name) ==
  LET rated ==
        WithField(
          WithField(name, "rating",
                    IF "rating" \in DOMAIN name /\ name.rating # 0 THEN name.rating ELSE 0),
          "ratingComment",
          IF "ratingComment" \in DOMAIN name /\ name.ratingComment # ""
            THEN name.ratingComment ELSE "")
  IN  IF "domains" \in DOMAIN name
        THEN rated
        ELSE WithField(rated, "domains", ComOnly(LegacyStatus(name)))

migrateOldData(list) == [i \in 1..Len(list) |-> migrateOne(list[i])]

\* a record of the old format: what every stored record has
LegacyBase(n) ==
  [id |-> <<n, "">>,
   name |-> StoredName,
   category |-> "Technology",
   timestamp |-> StringAt(n),
   isFavorite |-> FALSE]

\* a key that is absent, or present with a value
Absent == [has |-> FALSE]

Present(v) == [has |-> TRUE, value |-> v]

Opt(obj, f, o) == IF o.has THEN WithField(obj, f, o.value) ELSE obj

RatingOptions == {Absent, Present(0), Present(4)}

CommentOptions == {Absent, Present(""), Present("nice")}

DomainsOptions == {Absent, Present(checkMultipleDomains(StoredName))}

StatusOptions == {Absent, Present("taken"), Present("available")}

LegacyRecords ==
  { Opt(Opt(Opt(Opt(LegacyBase(1), "rating", r), "ratingComment", c), "domains", d),
        "domainStatus", s) :
      r \in RatingOptions, c \in CommentOptions, d \in DomainsOptions, s \in StatusOptions }

\* the passes of migrateOldData the model applies to one list
MaxPasses == 2

\* migrateOldData applied to the stored list, then to its own result
MigratePass ==
  /\ fnCalls < MaxPasses
  /\ fnRet' = migrateOldData(IF fnCalls = 0 THEN fnArg ELSE fnRet)
  /\ fnCalls' = fnCalls + 1
  /\ UNCHANGED <<appVars, genVars, lifeOps, probeVars, trigVars, recheck, loadVars, fnArg>>

InitMigrate ==
  /\ InitMounted(StoredEmpty)
  /\ fnArg \in {<<r>> : r \in LegacyRecords}
  /\ fnRet = <<>>
  /\ fnCalls = 0

SpecMigrate == InitMigrate /\ [][MigratePass]_vars

(***************************************************************************)
(* Persistence: the useState initializer, the load and persist effects     *)
(***************************************************************************)
AppStateOf(g, f, a, d) ==
  [generatedNames |-> g, favorites |-> f, archivedNames |-> a, darkMode |-> d]

EmptyState == AppStateOf(<<>>, <<>>, <<>>, FALSE)

\* JSON.stringify of a candidate list: a Date is written as its ISO string,
\* and a string stays the string it is
Stringify(list) ==
  [i \in 1..Len(list) |-> [list[i] EXCEPT !.timestamp = StringAt(@.time)]]

\* what the persist effect writes under 'saasNameGenState'
Persisted(st) ==
  [kind |-> "object",
   value |-> AppStateOf(Stringify(st.generatedNames), st.favorites,
                        Stringify(st.archivedNames), st.darkMode)]

\* the initializer's map: timestamp: new Date(name.timestamp)
WithDates(list) ==
  [i \in 1..Len(list) |-> [list[i] EXCEPT !.timestamp = DateAt(@.time)]]

\* parsed.key || fallback, for a key that holds a list or a boolean
Field(parsed, key, fallback) ==
  IF key \in DOMAIN parsed THEN parsed[key] ELSE fallback

\* localStorage.getItem gives null or '': if (saved) is false
IsMissing(content) == content.kind \in {"absent", "empty"}

\* JSON.parse(saved) throws, or gives null and parsed.generatedNames throws
ParseThrows(content) == content.kind \in {"unparsable", "null"}

\* the useState initializer on the content of 'saasNameGenState': JSON.parse
\* is not in a try block, so what it throws ends the render
initializer(content) ==
  IF IsMissing(content) THEN [pc |-> "initialized", state |-> EmptyState]
  ELSE IF ParseThrows(content) THEN [pc |-> "crashed", state |-> EmptyState]
  ELSE [pc |-> "initialized",
        state |-> AppStateOf(WithDates(Field(content.value, "generatedNames", <<>>)),
                             Field(content.value, "favorites", <<>>),
                             Field(content.value, "archivedNames", <<>>),
                             Field(content.value, "darkMode", FALSE))]

\* the load effect on the content of 'saasNameGenerator', from the state the
\* initializer gave
loadEffect(content, state) ==
  IF IsMissing(content) THEN state
  ELSE IF ParseThrows(content) THEN EmptyState
  ELSE AppStateOf(migrateOldData(Field(content.value, "generatedNames", <<>>)),
                  Field(content.value, "favorites", <<>>),
                  migrateOldData(Field(content.value, "archivedNames", <<>>)),
                  Field(content.value, "darkMode", FALSE))

CurrentState == AppStateOf(generatedNames, favorites, archivedNames, darkMode)

SetAppState(st) ==
  /\ generatedNames' = st.generatedNames
  /\ favorites' = st.favorites
  /\ archivedNames' = st.archivedNames
  /\ darkMode' = st.darkMode

\* the first render: the initializer runs
Initialize ==
  /\ loadPc = "start"
  /\ LET r == initializer(storage.main)
     IN  /\ loadPc' = r.pc
         /\ SetAppState(r.state)
  /\ UNCHANGED <<genVars, lifeOps, probeVars, trigVars, recheck, storage, saved, fnVars>>

\* the effects of the mount: the load effect, and the persist effect on the
\* state the application settles in
Mount ==
  /\ loadPc = "initialized"
  /\ LET st == loadEffect(storage.legacy, CurrentState)
     IN  /\ SetAppState(st)
         /\ storage' = [storage EXCEPT !.main = Persisted(st)]
  /\ loadPc' = "loaded"
  /\ UNCHANGED <<genVars, lifeOps, probeVars, trigVars, recheck, saved, fnVars>>

\* the page is reloaded: the state in memory is gone, localStorage stays
Reload ==
  /\ loadPc = "loaded"
  /\ loadPc' = "start"
  /\ saved' = [valid |-> TRUE, state |-> CurrentState]
  /\ SetAppState(EmptyState)
  /\ UNCHANGED <<genVars, lifeOps, probeVars, trigVars, recheck, storage, fnVars>>

toggleDarkMode ==
  /\ darkMode' = ~darkMode
  /\ UNCHANGED <<generatedNames, archivedNames, favorites>>

\* a handler of the mounted application, and the persist effect after it
PersistedStep(max) ==
  /\ loadPc = "loaded"
  /\ lifeOps < max
  /\ lifeOps' = lifeOps + 1
  /\ storage' = [storage EXCEPT
                   !.main = Persisted(AppStateOf(generatedNames', favorites',
                                                 archivedNames', darkMode'))]
  /\ saved' = [valid |-> FALSE]
  /\ UNCHANGED <<genVars, probeVars, trigVars, recheck, loadPc, fnVars>>

\* the handlers the modelled user runs between two loads
MaxLoadOps == 2

\* what the two keys hold when the page is first opened
MainContents ==
  { [kind |-> "absent"], [kind |-> "empty"], [kind |-> "unparsable"], [kind |-> "null"],
    Persisted(AppStateOf(StoredSmall.generatedNames, <<>>, StoredSmall.archivedNames, FALSE)) }

\* a state an older version stored: old-format records, no archive
LegacyState ==
  [generatedNames |-> << Opt(LegacyBase(5), "domainStatus", Present("taken")),
                         LegacyBase(4) >>,
   favorites |-> <<>>,
   darkMode |-> TRUE]

LegacyContents ==
  { [kind |-> "absent"], [kind |-> "unparsable"],
    [kind |-> "object", value |-> LegacyState] }

InitLoad ==
  /\ generatedNames = <<>>
  /\ archivedNames = <<>>
  /\ favorites = <<>>
  /\ darkMode = FALSE
  /\ InitIdle(0)
  /\ InitFn
  /\ storage \in [main : MainContents, legacy : LegacyContents]
  /\ loadPc = "start"
  /\ saved = [valid |-> FALSE]

NextLoad ==
  \/ Initialize
  \/ Mount
  \/ Reload
  \/ \E nameId \in Picks(generatedNames) : toggleFavorite(nameId) /\ PersistedStep(MaxLoadOps)
  \/ \E nameId \in Picks(generatedNames) : archiveName(nameId) /\ PersistedStep(MaxLoadOps)
  \/ toggleDarkMode /\ PersistedStep(MaxLoadOps)

SpecLoad == InitLoad /\ [][NextLoad]_vars

(***************************************************************************)
(* Specification of the estimator alone                                    *)
(***************************************************************************)
EstimatorNames ==
  { <<"a">>,
    <<"G", "o">>,
    <<"t", "h", "e">>,
    <<"d", "a", "t", "a">>,
    <<"c", "l", "o", "u", "d">>,
    <<"a", "b", "c", "d", "e">>,
    <<"C", "l", "o", "u", "d", "5">>,
    <<"Z", "e", "n", "i", "t", "h">>,
    <<"Z", "e", "n", "i", "t", "h", "y">>,
    <<"G", "o", "o", "g", "l", "e">>,
    <<"W", "I", "K", "I", "P", "E", "D", "I", "A">>,
    <<"s", "t", "r", "i", "p", "e">>,
    <<"n", "e", "t", "w", "o", "r", "k">> }

\* the ten configured extensions, others, upper case, and none at all
EstimatorExtensions ==
  { <<".", "c", "o", "m">>,
    <<".", "n", "e", "t">>,
    <<".", "o", "r", "g">>,
    <<".", "i", "o">>,
    <<".", "c", "o">>,
    <<".", "a", "p", "p">>,
    <<".", "d", "e", "v">>,
    <<".", "t", "e", "c", "h">>,
    <<".", "a", "i">>,
    <<".", "m", "e">>,
    <<".", "x", "y", "z">>,
    <<".", "c", "o", ".", "u", "k">>,
    <<".", "C", "O", "M">>,
    <<>> }

EstimatorDomains == {n \o e : n \in EstimatorNames, e \in EstimatorExtensions}

\* the calls of the estimator the model makes on one domain
MaxEstimates == 2

\* await checkDomainAvailability(fnArg)
Estimate ==
  /\ fnCalls < MaxEstimates
  /\ fnRet' = checkDomainAvailability(fnArg)
  /\ fnCalls' = fnCalls + 1
  /\ UNCHANGED <<appVars, genVars, lifeOps, probeVars, trigVars, recheck, loadVars, fnArg>>

InitEstimator ==
  /\ InitMounted(StoredEmpty)
  /\ fnArg \in EstimatorDomains
  /\ fnRet = <<>>
  /\ fnCalls = 0

SpecEstimator == InitEstimator /\ [][Estimate]_vars

(***************************************************************************)
(* Specification of the estimator on the well-known domains                *)
(***************************************************************************)
\* every domain of the list as written, in upper case, and capitalized
WellKnownInputs ==
  LET UpperChar(c) ==
        IF IsLower(c)
          THEN UpperLetters[CHOOSE i \in 1..Len(LowerLetters) : LowerLetters[i] = c]
          ELSE c
      ToUpper(d) == [i \in 1..Len(d) |-> UpperChar(d[i])]
      Capitalize(d) == [i \in 1..Len(d) |-> IF i = 1 THEN UpperChar(d[i]) ELSE d[i]]
  IN  definitelyTaken
        \cup {ToUpper(d) : d \in definitelyTaken}
        \cup {Capitalize(d) : d \in definitelyTaken}

InitWellKnown ==
  /\ InitMounted(StoredEmpty)
  /\ fnArg \in WellKnownInputs
  /\ fnRet = <<>>
  /\ fnCalls = 0

SpecWellKnown == InitWellKnown /\ [][Estimate]_vars

(***************************************************************************)
(* Specification of the sanitizer alone                                    *)
(***************************************************************************)
\* the longest cleaned name the modelled lines give
MaxLineLen == 32

\* lines of the reply whose cleaned name has n characters, for every n up to
\* MaxLineLen: letters alone, a numbered line with trailing punctuation, and
\* a letter followed by digits
SanitizerLines ==
  LET Repeat(c, n) == [i \in 1..n |-> c]
      LinesOfLength(n) ==
        { Repeat("a", n),
          <<"1", ".", " ">> \o Repeat("Z", n) \o <<"!">>,
          <<"b">> \o Repeat("7", n - 1) }
  IN  UNION {LinesOfLength(n) : n \in 1..MaxLineLen}

\* one pass of the loop body of a round, up to its filter
Sanitize ==
  /\ fnCalls = 0
  /\ fnRet' = [cleanName |-> CleanName(fnArg.line),
               accepted |-> Accepts(fnArg.round, CleanName(fnArg.line))]
  /\ fnCalls' = 1
  /\ UNCHANGED <<appVars, genVars, lifeOps, probeVars, trigVars, recheck, loadVars, fnArg>>

InitSanitizer ==
  /\ InitMounted(StoredEmpty)
  /\ fnArg \in [round : {"primary", "fallback"}, line : SanitizerLines]
  /\ fnRet = <<>>
  /\ fnCalls = 0

SpecSanitizer == InitSanitizer /\ [][Sanitize]_vars

(***************************************************************************)
(* Specification of the prober around an estimator that throws: fnArg is   *)
(* the set of extensions on which the estimator put in its place rejects   *)
(***************************************************************************)
ThrowPlans ==
  {{}} \cup {{e} : e \in ExtensionSet} \cup {{extensions[1], extensions[Len(extensions)]}}

ThrowNames ==
  { <<"Z", "e", "n", "i", "t", "h">>,
    <<"C", "l", "o", "u", "d", "F", "l", "o", "w">>,
    <<"!", "!">> }

\* one pass of the loop, the estimator rejecting on the planned extensions
ProbeNextCaught ==
  /\ probeCursor \in 1..Len(extensions)
  /\ results' = ProbeOneCaught(results, Normalize(probeName), extensions[probeCursor],
                               extensions[probeCursor] \in fnArg)
  /\ probeCursor' = probeCursor + 1
  /\ UNCHANGED <<appVars, genVars, lifeOps, probeName, restVars>>

InitProbeCaught ==
  /\ InitMounted(StoredEmpty)
  /\ fnArg \in ThrowPlans
  /\ fnRet = <<>>
  /\ fnCalls = 0

NextProbeCaught ==
  \/ \E name \in ThrowNames : ProbeCall(name)
  \/ ProbeNextCaught

SpecProbeCaught == InitProbeCaught /\ [][NextProbeCaught]_vars

(***************************************************************************)
(* Specification of the triggers: the two buttons, the timer of            *)
(* generateRandomEverything, and every generateName invocation they start, *)
(* each followed through its awaits only                                   *)
(***************************************************************************)
MaxTimers == 2

MaxPipelines == 3

\* the run-local state of the one detailed pipeline is not used here
runVars == <<pc, names, cursor, batch, calls, replies, toasts, outcome, nextId, runs>>

\* generateName is entered: setIsGenerating(true), then the primary call
StartPipeline ==
  /\ Len(pipelines) < MaxPipelines
  /\ pipelines' = Append(pipelines, "primaryCall")
  /\ isGenerating' = TRUE
  /\ UNCHANGED checkingDomains

\* generateName leaves through its last statement: setIsGenerating(false)
EndPipeline(i) ==
  /\ pipelines' = SubSeq(pipelines, 1, i - 1) \o SubSeq(pipelines, i + 1, Len(pipelines))
  /\ isGenerating' = FALSE

\* the Generate button, enabled while isGenerating is false
ClickGenerateButton ==
  /\ ~isGenerating
  /\ StartPipeline
  /\ UNCHANGED <<appVars, runVars, lifeOps, probeVars, recheck, loadVars, fnVars, timers>>

\* the Surprise Me button: generateRandomEverything sets its timer
generateRandomEverything ==
  /\ ~isGenerating
  /\ timers < MaxTimers
  /\ timers' = timers + 1
  /\ UNCHANGED <<appVars, genVars, lifeOps, probeVars, recheck, loadVars, fnVars, pipelines>>

\* 500 ms later the timer calls generateName
TimerFires ==
  /\ timers > 0
  /\ timers' = timers - 1
  /\ StartPipeline
  /\ UNCHANGED <<appVars, runVars, lifeOps, probeVars, recheck, loadVars, fnVars>>

\* the primary call of invocation i returns: probing starts, or the call
\* rejected and the catch block runs
PipelineReplied(i) ==
  /\ pipelines[i] = "primaryCall"
  /\ \/ /\ pipelines' = [pipelines EXCEPT ![i] = "probing"]
        /\ checkingDomains' = TRUE
        /\ UNCHANGED isGenerating
     \/ /\ EndPipeline(i)
        /\ UNCHANGED checkingDomains
  /\ UNCHANGED <<appVars, runVars, lifeOps, probeVars, recheck, loadVars, fnVars, timers>>

\* the primary candidates of invocation i are probed: setCheckingDomains(false),
\* then the fallback call, or the merge and the end
PipelineProbed(i) ==
  /\ pipelines[i] = "probing"
  /\ checkingDomains' = FALSE
  /\ \/ /\ pipelines' = [pipelines EXCEPT ![i] = "fallbackCall"]
        /\ UNCHANGED isGenerating
     \/ EndPipeline(i)
  /\ UNCHANGED <<appVars, runVars, lifeOps, probeVars, recheck, loadVars, fnVars, timers>>

\* the fallback call of invocation i returns or rejects, its candidates are
\* probed, and the invocation ends
PipelineFellBack(i) ==
  /\ pipelines[i] = "fallbackCall"
  /\ EndPipeline(i)
  /\ UNCHANGED <<appVars, runVars, lifeOps, probeVars, recheck, loadVars, fnVars, timers,
                 checkingDomains>>

NextTrigger ==
  \/ ClickGenerateButton
  \/ generateRandomEverything
  \/ TimerFires
  \/ \E i \in 1..Len(pipelines) : PipelineReplied(i)
  \/ \E i \in 1..Len(pipelines) : PipelineProbed(i)
  \/ \E i \in 1..Len(pipelines) : PipelineFellBack(i)

SpecTrigger == InitWith(StoredEmpty) /\ [][NextTrigger]_vars

(***************************************************************************)
(* Specification of one generateName run with every await of its probes a  *)
(* step: the ten passes of checkMultipleDomains for each candidate         *)
(***************************************************************************)
Probing == pc \in {"primaryProbe", "fallbackProbe"}

\* after a step of the run: checkMultipleDomains is called for the line the
\* run now stands at, or no probe is in flight
CallProber ==
  IF pc' \in {"primaryProbe", "fallbackProbe"}
    THEN /\ probeName' = CleanName(names'[cursor'])
         /\ probeCursor' = 1
         /\ results' = <<>>
    ELSE /\ probeName' = <<>>
         /\ probeCursor' = 0
         /\ results' = <<>>

\* one pass of the loop of checkMultipleDomains inside the run
RunProbeNext ==
  /\ Probing
  /\ probeCursor \in 1..Len(extensions)
  /\ results' = ProbeOne(results, Normalize(probeName), extensions[probeCursor])
  /\ probeCursor' = probeCursor + 1
  /\ UNCHANGED <<appVars, genVars, lifeOps, probeName, restVars>>

\* checkMultipleDomains returns inside the run
RunProbeReturns ==
  /\ probeCursor = Len(extensions) + 1
  /\ ProbeReturns
  /\ CallProber

\* the replies of the service the runs of this specification receive
StepReplies ==
  { [kind |-> "networkError", status |-> 0, text |-> <<>>],
    [kind |-> "generations", status |-> 200, text |-> TextTwo],
    [kind |-> "generations", status |-> 200, text |-> TextFull],
    [kind |-> "generations", status |-> 200, text |-> TextBlank] }

NextSteps ==
  \/ ClickGenerate
  \/ \E reply \in StepReplies : PrimaryReplied(reply) /\ CallProber
  \/ \E reply \in StepReplies : FallbackReplied(reply) /\ CallProber
  \/ RunProbeNext
  \/ RunProbeReturns

SpecSteps == InitWith(StoredSmall) /\ [][NextSteps]_vars

(***************************************************************************)
(* Specification of the lifecycle handlers run while a generation is in    *)
(* flight                                                                  *)
(***************************************************************************)
MaxBusyOps == 2

\* a lifecycle click between the start of a run and its end
BusyStep ==
  /\ isGenerating
  /\ LifeStep(MaxBusyOps)
  /\ UNCHANGED recheck

NextBusy ==
  \/ ClickGenerate
  \/ \E reply \in StepReplies : PrimaryReply(reply)
  \/ \E reply \in StepReplies : FallbackReply(reply)
  \/ ProbeDone
  \/ \E nameId \in Picks(generatedNames) : BusyStep /\ archiveName(nameId)
  \/ \E nameId \in Picks(archivedNames) : BusyStep /\ restoreName(nameId)
  \/ \E nameId \in Picks(generatedNames) : BusyStep /\ toggleFavorite(nameId)
  \/ \E nameId \in Picks(generatedNames) \cup Picks(archivedNames) :
       BusyStep /\ rateName(nameId, RatingGiven, "")
  \/ BusyStep /\ clearHistory
  \/ BusyStep /\ clearArchived
  \/ BusyStep /\ clearSearches

SpecBusy == InitWith(StoredSmall) /\ [][NextBusy]_vars

(***************************************************************************)
(* Properties                                                              *)
(***************************************************************************)
\* the service call rejects: fetch fails or the body cannot be parsed
CallFails(reply) == reply.kind \in {"networkError", "notJson"}

\* the primary round of the current or last run is over
PrimaryDone ==
  \/ pc \in {"fallbackCall", "fallbackProbe"}
  \/ outcome = "success"
  \/ outcome = "failed" /\ Len(replies) = 2

\* the candidates of the primary round: their ids carry no fallback suffix
PrimaryBatch == SelectSeq(batch, LAMBDA c : c.id[2] = "")

NamesOf(b) == [i \in 1..Len(b) |-> b[i].name]

\* C1: once the primary round is over, a fallback call has been issued
\* exactly when the round produced fewer than 3 candidates: two calls with
\* 0, 1 or 2 primary candidates, one call with 3, 4 or 5.
C1_FallbackIffFewerThanThree ==
  PrimaryDone =>
    /\ Len(PrimaryBatch) \in 0..5
    /\ Len(PrimaryBatch) < 3 => calls = 2
    /\ Len(PrimaryBatch) >= 3 => calls = 1

C1_Witness ==
  /\ outcome = "success"
  /\ Len(PrimaryBatch) = 2
  /\ calls = 2

\* C2: the step in which the primary call fails changes neither the active
\* history, the archived collection nor the favorites, ends the run as
\* failed, and emits one failure notification and no other.
C2_PrimaryFailureCommitsNothing ==
  [][(pc = "primaryCall" /\ Len(replies') = 1 /\ CallFails(replies'[1]))
       => /\ generatedNames' = generatedNames
          /\ archivedNames' = archivedNames
          /\ favorites' = favorites
          /\ outcome' = "failed"
          /\ toasts' = <<"error">>
          /\ calls' = 1]_vars

C2_Witness ==
  /\ outcome = "failed"
  /\ Len(replies) = 1
  /\ replies[1].kind = "networkError"
  /\ generatedNames # <<>>

\* C3: the step in which the fallback call fails ends the run as failed with
\* a failure notification, leaves the history as it was, and merges none of
\* the candidates the primary round had assembled.
C3_FallbackFailureDiscardsBatch ==
  [][(pc = "fallbackCall" /\ Len(replies') = 2 /\ CallFails(replies'[2]))
       => /\ outcome' = "failed"
          /\ "error" \in Range(toasts')
          /\ generatedNames' = generatedNames
          /\ archivedNames' = archivedNames
          /\ \A i \in 1..Len(batch') :
               batch'[i].id \notin Ids(generatedNames') \cup Ids(archivedNames')]_vars

C3_Witness ==
  /\ outcome = "failed"
  /\ Len(replies) = 2
  /\ CallFails(replies[2])
  /\ Len(batch) = 2
  /\ generatedNames # <<>>

C5_NonOkReplyFailsTheRun ==
  \A i \in 1..Len(replies) :
    replies[i].status \notin 200..299 => outcome = "failed"

\* the Name Sanitizer's acceptance as the specification words it
SanitizerAccepted(name) ==
  /\ Len(name) >= 2
  /\ Len(name) <= 30
  /\ ToLower(name) \notin unwantedWords

\* C6 as claimed: every candidate of a merged batch, from either round, has
\* a name the Name Sanitizer accepts.
C6_MergedNamesAccepted ==
  outcome = "success" => \A i \in 1..Len(batch) : SanitizerAccepted(batch[i].name)

\* C7: a run issues at most two service calls and receives at most two
\* replies, whatever the replies hold.
C7_AtMostTwoCalls ==
  /\ calls \in 0..2
  /\ Len(replies) <= calls
  /\ pc \in {"idle", "primaryCall", "primaryProbe", "fallbackCall", "fallbackProbe"}
  /\ pc \in {"fallbackCall", "fallbackProbe"} => calls = 2

C7_Witness ==
  /\ outcome = "success"
  /\ calls = 2
  /\ Len(batch) < 3

\* C8 as claimed: the step that ends a run whose two calls succeeded and
\* left an empty batch is a success without an error, and leaves the history
\* with the entries it had.
C8_EmptyBatchKeepsHistory ==
  [][(pc = "fallbackCall" /\ pc' = "idle" /\ ~CallFails(replies'[2]) /\ batch' = <<>>)
       => /\ outcome' = "success"
          /\ toasts' = <<"success">>
          /\ generatedNames' = generatedNames]_vars

\* the candidates each modelled response text must yield in the primary round
ExpectedPrimaryNames(text) ==
  CASE text = TextExample -> <<<<"C", "l", "o", "u", "d", "F", "l", "o", "w">>, <<"D", "a", "t", "a", "S", "y", "n", "c">>, <<"T", "e", "a", "m", "H", "u", "b">>>>
    [] text = TextSixth -> <<<<"A", "l", "p", "h", "a">>, <<"B", "r", "a", "v", "o">>, <<"D", "e", "l", "t", "a">>>>
    [] text = TextTwo -> <<<<"N", "i", "m", "b", "u", "s">>, <<"O", "r", "b", "i", "t">>>>
    [] text = TextDeny -> <<<<"Z", "e", "n", "i", "t", "h">>>>
    [] text = TextFull -> <<<<"A", "a">>, <<"B", "b">>, <<"C", "c">>, <<"D", "d">>, <<"E", "e">>>>
    [] text = TextBlank -> <<>>

\* the first five non-blank lines of a text
FirstFiveNonBlank(text) ==
  LET nonBlank == SelectSeq(Split(text, "\n"),
                            LAMBDA line : \E i \in 1..Len(line) : ~IsSpace(line[i]))
  IN  [i \in 1..(IF Len(nonBlank) < 5 THEN Len(nonBlank) ELSE 5) |-> nonBlank[i]]

\* C9: once the primary round is over, its candidates are the accepted ones
\* among the first five non-blank lines of the response, cleaned, in response
\* order; the end-to-end scenario yields CloudFlow, DataSync, TeamHub and no
\* fallback call.
C9_PrimaryCandidatesAreFirstFiveAccepted ==
  (PrimaryDone /\ replies[1].kind = "generations")
    => /\ NamesOf(PrimaryBatch) = ExpectedPrimaryNames(replies[1].text)
       /\ NamesOf(PrimaryBatch) =
            SelectSeq([i \in 1..Len(FirstFiveNonBlank(replies[1].text)) |->
                         CleanName(FirstFiveNonBlank(replies[1].text)[i])],
                      SanitizerAccepted)
       /\ replies[1].text = TextExample => calls = 1

C9_Witness ==
  /\ outcome = "success"
  /\ replies[1].text = TextSixth
  /\ Len(PrimaryBatch) = 3
  /\ calls = 1

\* the ten configured extensions
TenExtensions ==
  { <<".", "c", "o", "m">>, <<".", "n", "e", "t">>, <<".", "o", "r", "g">>, <<".", "i", "o">>, <<".", "c", "o">>, <<".", "a", "p", "p">>, <<".", "d", "e", "v">>, <<".", "t", "e", "c", "h">>, <<".", "a", "i">>, <<".", "m", "e">> }

\* C10: when checkMultipleDomains returns, for any name, the keys of its map
\* are exactly the ten configured extensions, and the map is the one the
\* candidates of a batch carry for that name.
C10_TenExtensionKeys ==
  ProbeReturned
    => /\ DOMAIN results = TenExtensions
       /\ Cardinality(DOMAIN results) = 10
       /\ results = checkMultipleDomains(probeName)

C10_Witness ==
  /\ ProbeReturned
  /\ probeName # <<>>
  /\ Normalize(probeName) = <<>>


\* C11: the step that ends a run as a success sets the active history to the
\* new batch followed by the previous history, cut to its first 20 entries:
\* entry by entry the new batch in its order, then the previous entries in
\* theirs, and only entries past the twentieth are dropped.
C11_MergePrependsAndCuts ==
  [][(outcome = "running" /\ outcome' = "success")
       => LET all == batch' \o generatedNames
          IN  /\ Len(generatedNames') = IF Len(all) < 20 THEN Len(all) ELSE 20
              /\ \A i \in 1..Len(generatedNames') : generatedNames'[i] = all[i]]_vars

\* five new candidates merged into eighteen: twenty entries, the three
\* oldest of the eighteen gone
C11_Witness ==
  /\ outcome = "success"
  /\ lifeOps = 0
  /\ Len(batch) = 5
  /\ Len(generatedNames) = 20
  /\ \A i \in 1..5 : generatedNames[i] = batch[i]
  /\ generatedNames[6].id = <<19, "">>
  /\ generatedNames[20].id = <<5, "">>


\* C12 as claimed: the active history never holds more than 20 candidates.
C12_HistoryAtMostTwenty == Len(generatedNames) <= 20

\* C13 as claimed: no candidate is in the active and in the archived
\* collection at once.
C13_ActiveArchivedDisjoint == Ids(generatedNames) \cap Ids(archivedNames) = {}

\* C14 as claimed: favorites is the list of the ids of the active candidates
\* whose isFavorite flag is true.
C14_FavoritesDerived ==
  LET favored == SelectSeq(generatedNames, LAMBDA n : n.isFavorite)
  IN  favorites = [i \in 1..Len(favored) |-> favored[i].id]

\* C15 as claimed: no two entries of the active and archived collections
\* together share an id.
C15_IdsUnique ==
  LET all == generatedNames \o archivedNames
  IN  \A i, j \in 1..Len(all) : i # j => all[i].id # all[j].id

\* C16 as claimed: the active history is ordered most recent first by
\* creation time.
C16_MostRecentFirst ==
  \A i, j \in 1..Len(generatedNames) :
    i < j => generatedNames[i].timestamp.time >= generatedNames[j].timestamp.time


\* what the claim says a migrated record holds, key by key
MigratedAsClaimed(old, new) ==
  /\ DOMAIN new = (DOMAIN old) \cup {"rating", "ratingComment", "domains"}
  /\ new.rating = IF "rating" \in DOMAIN old THEN old.rating ELSE 0
  /\ new.ratingComment = IF "ratingComment" \in DOMAIN old THEN old.ratingComment ELSE ""
  /\ DOMAIN new.domains =
       IF "domains" \in DOMAIN old THEN DOMAIN old.domains ELSE {<<".", "c", "o", "m">>}
  /\ \A e \in DOMAIN new.domains :
       new.domains[e] =
         IF "domains" \in DOMAIN old THEN old.domains[e]
         ELSE IF "domainStatus" \in DOMAIN old THEN old.domainStatus
         ELSE "unknown"
  /\ \A k \in (DOMAIN old) \ {"rating", "ratingComment", "domains"} : new[k] = old[k]

\* C19: the first pass of migrateOldData sets a missing rating to 0, a missing
\* ratingComment to "" and a missing domains map to the one entry '.com'
\* holding the legacy domainStatus or 'unknown', and leaves every present
\* value as it is; a further pass over its result changes nothing.
C19_MigrateFillsAndIsIdempotent ==
  [][fnCalls' = fnCalls + 1
       => /\ fnCalls = 0
             => /\ Len(fnRet') = Len(fnArg)
                /\ \A i \in 1..Len(fnArg) : MigratedAsClaimed(fnArg[i], fnRet'[i])
          /\ fnCalls >= 1 => fnRet' = fnRet]_vars

\* a record with a rating and a domains map has been migrated twice
C19_Witness ==
  /\ fnCalls = 2
  /\ "domains" \in DOMAIN fnArg[1]
  /\ "rating" \in DOMAIN fnArg[1]
  /\ fnArg[1].rating = 4
  /\ "ratingComment" \notin DOMAIN fnArg[1]
  /\ fnRet[1].rating = 4
  /\ fnRet[1].ratingComment = ""


\* C17 as claimed: on unparsable content under either key the start-up does
\* not crash: the content is discarded and the application starts with an
\* empty active, archived and favorites.
C17_MalformedLoadStartsEmpty ==
  [][/\ (loadPc = "start" /\ ParseThrows(storage.main))
        => /\ loadPc' # "crashed"
           /\ generatedNames' = <<>> /\ archivedNames' = <<>> /\ favorites' = <<>>
     /\ (loadPc = "initialized" /\ ParseThrows(storage.legacy))
        => /\ loadPc' # "crashed"
           /\ generatedNames' = <<>> /\ archivedNames' = <<>> /\ favorites' = <<>>]_vars

\* C18 as claimed: once loaded, every candidate of both collections carries a
\* timestamp value, and the state loaded after a reload is the state that
\* was persisted before it.
C18_PersistLoadRoundTrip ==
  loadPc = "loaded"
    => /\ \A i \in 1..Len(generatedNames) : generatedNames[i].timestamp.type = "Date"
       /\ \A i \in 1..Len(archivedNames) : archivedNames[i].timestamp.type = "Date"
       /\ saved.valid => CurrentState = saved.state


\* the rule list of the claim, in its order: which rules apply to a domain
\* and what each gives
RulesAsClaimed(domain) ==
  LET lower == ToLower(domain)
      namePart == BeforeFirst(lower, ".")
      ext == AfterLast(lower, ".")
  IN  << [applies |-> lower \in definitelyTaken, gives |-> "taken"],
         [applies |-> Len(namePart) <= 4, gives |-> "taken"],
         [applies |-> namePart \in commonWords, gives |-> "taken"],
         [applies |-> ext = <<"c", "o", "m">>,
          gives |-> IF Len(namePart) <= 6 \/ namePart \in genericComWords
                      THEN "taken" ELSE "available"],
         [applies |-> ext \in { <<"i", "o">>, <<"c", "o">>, <<"a", "p", "p">>,
                                <<"d", "e", "v">>, <<"t", "e", "c", "h">>,
                                <<"a", "i">>, <<"m", "e">> },
          gives |-> "available"],
         [applies |-> ext \in { <<"n", "e", "t">>, <<"o", "r", "g">> },
          gives |-> IF Len(namePart) <= 5 THEN "taken" ELSE "available"],
         [applies |-> TRUE, gives |-> "available"] >>

\* the first rule that applies wins
FirstMatch(rules) ==
  rules[CHOOSE k \in 1..Len(rules) :
          rules[k].applies /\ \A j \in 1..(k - 1) : ~rules[j].applies].gives

\* C20: every call of checkDomainAvailability returns, for its domain, what
\* the first applicable rule of the ordered list gives: well-known domain
\* taken; name part of at most 4 characters taken; stop word taken; .com taken
\* when at most 6 characters or a generic word, else available; the seven
\* newer extensions available; .net and .org taken when at most 5 characters,
\* else available; anything else available. The answer is never unknown and
\* a repeated call gives the same answer.
C20_EstimatorFollowsRuleList ==
  fnCalls >= 1
    => /\ fnRet = FirstMatch(RulesAsClaimed(fnArg))
       /\ fnRet \in {"taken", "available"}

\* a six-character name under .com, in upper case, was estimated twice: taken
C20_Witness ==
  /\ fnCalls = 2
  /\ fnArg = <<"Z", "e", "n", "i", "t", "h", ".", "C", "O", "M">>
  /\ fnRet = "taken"


\* the length and extension rules alone would answer available
RulesSayAvailable(domain) ==
  LET namePart == BeforeFirst(ToLower(domain), ".")
      ext == AfterLast(ToLower(domain), ".")
  IN  \/ ext = <<"c", "o", "m">> /\ Len(namePart) > 6
      \/ ext = <<"o", "r", "g">> /\ Len(namePart) > 5

\* C21: every domain of the well-known list, in any letter case, is
\* classified taken, whatever the length and extension rules would say.
C21_WellKnownTaken ==
  (fnCalls >= 1 /\ ToLower(fnArg) \in definitelyTaken) => fnRet = "taken"

\* WIKIPEDIA.ORG, which the .org rule alone would call available, is taken
C21_Witness ==
  /\ fnCalls >= 1
  /\ fnArg = <<"W", "I", "K", "I", "P", "E", "D", "I", "A", ".", "O", "R", "G">>
  /\ RulesSayAvailable(fnArg)
  /\ fnRet = "taken"


\* C22: in both rounds a line of valid characters is accepted exactly when
\* its cleaned name has from 2 to 30 characters, both bounds included: 30 is
\* accepted and 31 rejected, 1 is rejected and 2 accepted.
C22_LengthBoundsInclusive ==
  (fnCalls = 1 /\ ToLower(fnRet.cleanName) \notin unwantedWords)
    => /\ Len(fnRet.cleanName) \in 2..30 => fnRet.accepted
       /\ Len(fnRet.cleanName) \notin 2..30 => ~fnRet.accepted

\* a fallback line whose cleaned name has exactly 30 characters is accepted
C22_Witness ==
  /\ fnCalls = 1
  /\ fnArg.round = "fallback"
  /\ Len(fnArg.line) = 34
  /\ Len(fnRet.cleanName) = 30
  /\ fnRet.accepted


\* C23: around an estimator that throws on some extensions, after each pass
\* the map holds exactly the extensions probed so far, in the declared order:
\* unknown for the ones that threw, the estimator's answer for every other
\* one, earlier or later; and the prober returns with all ten keys.
C23_ThrowDowngradesOneExtension ==
  probeCursor >= 1
    => /\ DOMAIN results = {extensions[k] : k \in 1..(probeCursor - 1)}
       /\ \A e \in DOMAIN results :
            results[e] = IF e \in fnArg THEN "unknown"
                         ELSE checkDomainAvailability(Normalize(probeName) \o e)
       /\ ProbeReturned => Cardinality(DOMAIN results) = 10

\* the estimator threw on .org alone: the prober returned, .org is unknown,
\* .com before it and .me after it are classified
C23_Witness ==
  /\ ProbeReturned
  /\ fnArg = {<<".", "o", "r", "g">>}
  /\ results[<<".", "o", "r", "g">>] = "unknown"
  /\ results[<<".", "c", "o", "m">>] = "taken"
  /\ results[<<".", "m", "e">>] = "available"


\* C24 as claimed: at most one generateName invocation is in flight at any
\* time, whatever the clicks on Generate and Surprise Me.
C24_AtMostOnePipeline == Len(pipelines) <= 1


\* the candidates of the fallback round carry the id suffix
IsFallbackCandidate(c) == c.id[2] = "fallback"

\* how many lines of a round the primary filter accepts
PrimaryAccepted(lines) ==
  Cardinality({j \in 1..Len(lines) : AcceptsPrimary(CleanName(lines[j]))})

\* C25: within a run the steps are strictly sequential. While a candidate is
\* probed its map holds exactly the extensions before the current one, in the
\* declared order; a probe starts only when none is in progress; a candidate
\* is pushed only when its ten probes are complete, with their map; the
\* fallback call is issued only when every accepted primary line has its
\* candidate, fully probed; the history changes only in the step that ends
\* the run as a success, no probe in flight, the primary candidates of the
\* batch before the fallback ones.
C25_StepsStrictlySequential ==
  [][/\ Probing
        => /\ probeCursor \in 1..(Len(extensions) + 1)
           /\ DOMAIN results = {extensions[k] : k \in 1..(probeCursor - 1)}
           /\ probeName = CleanName(names[cursor])
     /\ probeCursor' = 1 => probeCursor \in {0, Len(extensions) + 1}
     /\ Len(batch') = Len(batch) + 1
        => /\ probeCursor = Len(extensions) + 1
           /\ Cardinality(DOMAIN results) = 10
           /\ batch'[Len(batch')].domains = results
           /\ batch'[Len(batch')].name = probeName
     /\ (calls = 1 /\ calls' = 2)
        => /\ Len(batch') = PrimaryAccepted(names')
           /\ probeCursor' = 0
           /\ \A i \in 1..Len(batch') :
                ~IsFallbackCandidate(batch'[i]) /\ Cardinality(DOMAIN batch'[i].domains) = 10
     /\ generatedNames' # generatedNames
        => /\ outcome = "running" /\ outcome' = "success"
           /\ probeCursor' = 0
           /\ generatedNames' = Take(batch' \o generatedNames, 20)
           /\ \A i, j \in 1..Len(batch') :
                (IsFallbackCandidate(batch'[i]) /\ ~IsFallbackCandidate(batch'[j])) => j < i]_vars

\* a run ended with two primary candidates and five fallback candidates
C25_Witness ==
  /\ outcome = "success"
  /\ calls = 2
  /\ Len(batch) = 7
  /\ ~IsFallbackCandidate(batch[2])
  /\ IsFallbackCandidate(batch[3])
  /\ \A i \in 1..7 : generatedNames[i] = batch[i]


\* C26: lifecycle handlers run between the start of a run and its merge
\* change the application state alone, never the run; and the step that
\* ends the run as a success sets the active history to the batch followed
\* by the active collection as it is in that step, cut to 20, and leaves the
\* archived collection and the favorites as they are in that step.
C26_MergeKeepsLifecycleEffects ==
  [][/\ (outcome = "running" /\ outcome' = "success")
        => /\ generatedNames' = Take(batch' \o generatedNames, 20)
           /\ archivedNames' = archivedNames
           /\ favorites' = favorites
     /\ lifeOps' # lifeOps
        => /\ outcome = "running"
           /\ UNCHANGED <<batch, pc, names, cursor, outcome>>]_vars

\* candidate 3 was made a favorite and candidate 2 archived while the run
\* was in flight: after the merge the batch is followed by candidate 3 with
\* its flag, and candidate 2 is in the archive
C26_Witness ==
  /\ outcome = "success"
  /\ lifeOps = 2
  /\ Len(batch) = 5
  /\ Len(generatedNames) = 6
  /\ generatedNames[6].id = <<3, "">>
  /\ generatedNames[6].isFavorite
  /\ favorites = << <<3, "">> >>
  /\ <<2, "">> \in Ids(archivedNames)


\* how many entries of the two collections together carry each id
IdCount(active, archived) ==
  LET all == active \o archived
  IN  [id \in Ids(all) |-> Cardinality({i \in 1..Len(all) : all[i].id = id})]

\* a step of one of the handlers the claim names
ConservingStep ==
  \/ \E nameId \in Ids(generatedNames) : archiveName(nameId)
  \/ \E nameId \in Ids(archivedNames) : restoreName(nameId)
  \/ \E nameId \in Ids(generatedNames) : toggleFavorite(nameId)
  \/ \E nameId \in Ids(generatedNames) \cup Ids(archivedNames) :
       rateName(nameId, RatingGiven, "")
  \/ recheckStart
  \/ recheckFinish

\* C27 as claimed: a step of archiveName, restoreName, rateName,
\* toggleFavorite or recheckArchivedDomains leaves the candidates of active
\* plus archived the same, each as many times as before.
C27_CandidatesConserved ==
  [][ConservingStep
       => IdCount(generatedNames', archivedNames') = IdCount(generatedNames, archivedNames)]_vars


\* C28 as claimed: when a generateName invocation finishes, isGenerating is
\* false and checkingDomains is false.
C28_FinishedRunClearsFlags ==
  [][Len(pipelines') < Len(pipelines)
       => (isGenerating' = FALSE /\ checkingDomains' = FALSE)]_vars

\* the candidates of the batch that the primary round made
PrimaryPart(b) == SelectSeq(b, LAMBDA c : ~IsFallbackCandidate(c))

\* C29: the batch of a run never holds more than 7 candidates: at most 5
\* while no fallback call was issued, and at most 2 primary ones once it
\* was; and the step that merges it keeps every candidate of the batch, at
\* the head of the history.
C29_BatchAtMostSeven ==
  [][/\ Len(batch') <= 7
     /\ calls' = 1 => Len(batch') <= 5
     /\ calls' = 2 => (Len(PrimaryPart(batch')) <= 2 /\ Len(batch') <= 2 + 5)
     /\ (outcome = "running" /\ outcome' = "success")
        => /\ Len(generatedNames') >= Len(batch')
           /\ \A i \in 1..Len(batch') : generatedNames'[i] = batch'[i]]_vars

\* seven candidates were merged into a history of eighteen: all seven are
\* kept, and the history is cut to 20
C29_Witness ==
  /\ outcome = "success"
  /\ lifeOps = 0
  /\ calls = 2
  /\ Len(batch) = 7
  /\ Len(PrimaryPart(batch)) = 2
  /\ Len(generatedNames) = 20
  /\ \A i \in 1..7 : generatedNames[i] = batch[i]


\* every entry of a domain map is available or taken
Classified(domains) == \A e \in DOMAIN domains : domains[e] \in {"available", "taken"}

\* C30: with the built-in estimator the prober never records unknown: the
\* map of the probe in flight, and the map of every candidate of the batch,
\* of the active history and of the archive, hold available or taken alone.
C30_ProberNeverRecordsUnknown ==
  /\ Classified(results)
  /\ \A i \in 1..Len(batch) : Classified(batch[i].domains)
  /\ \A i \in 1..Len(generatedNames) : Classified(generatedNames[i].domains)
  /\ \A i \in 1..Len(archivedNames) : Classified(archivedNames[i].domains)

\* the ten probes of the primary candidate Nimbus are complete: taken under
\* .com, available under .io
C30_Witness ==
  /\ pc = "primaryProbe"
  /\ probeCursor = Len(extensions) + 1
  /\ probeName = <<"N", "i", "m", "b", "u", "s">>
  /\ Cardinality(DOMAIN results) = 10
  /\ results[<<".", "c", "o", "m">>] = "taken"
  /\ results[<<".", "i", "o">>] = "available"

====
